---- MODULE Spec2Model ----
(***************************************************************************)
(* Model of the Squid SDK client (class Squid), the EVM handler utilities  *)
(* (class Utils) and the v1 route normaliser (parseRoute).                 *)
(*                                                                         *)
(* JavaScript values: a string is a TLA+ string and an object is a         *)
(* function from its own keys to their values.  undefined is Undefined     *)
(* where the program holds a string and UndefinedObject where it holds an  *)
(* object (TLC compares a string with a string and a record with a record  *)
(* only).  Get reads a property the way a JavaScript property read does.   *)
(* An Error is a record with the parts of its message in order.            *)
(***************************************************************************)
EXTENDS Integers, Sequences, FiniteSets, TLC

VARIABLES
    initialized,          \* Squid.initialized
    tokens,               \* TokensChains.tokens
    chains,               \* TokensChains.chains
    isInMaintenanceMode,  \* Squid.isInMaintenanceMode
    maintenanceMessage,   \* Squid.maintenanceMessage
    axelarscanURL,        \* Squid.axelarscanURL
    config,               \* Squid.config
    httpInstance,         \* Squid.httpInstance (base url and default headers)
    initPending,          \* init() calls awaiting the v2/sdk-info response
    routePending,         \* getRoute() calls awaiting the v2/route response
    last,                 \* the outcome of the call that completed last
    arg,                  \* input of the pure function under check
    ret                   \* its output

vars == <<initialized, tokens, chains, isInMaintenanceMode, maintenanceMessage,
          axelarscanURL, config, httpInstance, initPending, routePending,
          last, arg, ret>>

sdkVars == <<initialized, tokens, chains, isInMaintenanceMode,
             maintenanceMessage, axelarscanURL, config, httpInstance,
             initPending, routePending, last>>

metaVars == <<tokens, chains, isInMaintenanceMode, maintenanceMessage,
              axelarscanURL>>

----------------------------------------------------------------------------
(* Bounds *)

MaxInFlight == 2   \* requests awaiting a response, per endpoint
MaxCalls == 3      \* length of the call list given to parseRoute
MaxAmount == 12    \* largest amount and balance

----------------------------------------------------------------------------
(* JavaScript values *)

Undefined == "undefined"

UndefinedObject == [undefined |-> TRUE]

Get(o, k) == IF k \in DOMAIN o THEN o[k] ELSE Undefined

\* truthiness of a string-or-undefined value
Truthy(v) == v \notin {Undefined, ""}

\* a || b on string-or-undefined values
Or(a, b) == IF Truthy(a) THEN a ELSE b

\* { ...a, ...b }
Spread(a, b) ==
    [k \in (DOMAIN a) \cup (DOMAIN b) |-> IF k \in DOMAIN b THEN b[k] ELSE a[k]]

\* new Error(message): an undefined message gives the empty message
Error(parts) == [name |-> "Error", message |-> parts]

NoError == [name |-> "none"]

EmptyObject == [k \in {} |-> Undefined]

----------------------------------------------------------------------------
(* Constants of the program *)

baseUrl == "https://testnet.api.squidrouter.com/"

nativeTokenConstant == "0xEeeeeEeeeEeEeeEeEeEeeEEEeeeeEeeeeeeeEEeE"

EVM == "evm"

COSMOS == "cosmos"

erc20Abi == "erc20.json"

NotInitializedError ==
    Error(<<"SquidSdk must be initialized! Please call the SquidSdk.init method">>)

MissingTransactionRequestError ==
    Error(<<"transactionRequest param not found in route object">>)

UnsupportedChainFamilyError(chainType) ==
    Error(<<"Method not supported given chain type ", chainType>>)

InitializationFailedError == Error(<<"SDK initialization failed">>)

----------------------------------------------------------------------------
(* What the services can answer *)

Statuses == {200, 400, 500}

EthChain ==
    [chainId |-> "1", chainType |-> EVM, rpc |-> "https://eth.rpc",
     nativeCurrency |-> [symbol |-> "ETH"]]

OsmosisChain ==
    [chainId |-> "osmosis-1", chainType |-> COSMOS, rpc |-> "https://osmo.rpc",
     nativeCurrency |-> [symbol |-> "OSMO"]]

TronChain ==
    [chainId |-> "tron", chainType |-> "tron", rpc |-> "https://tron.rpc",
     nativeCurrency |-> [symbol |-> "TRX"]]

Tok(chainId, address, symbol) ==
    [chainId |-> chainId, address |-> address, symbol |-> symbol]

\* the bodies v2/sdk-info can answer with
SdkInfos ==
    { [tokens |-> << Tok("1", nativeTokenConstant, "ETH"),
                     Tok("1", "0xusdc", "USDC"),
                     Tok("osmosis-1", "uosmo", "OSMO"),
                     Tok("osmosis-1", nativeTokenConstant, "OSMO"),
                     Tok("tron", nativeTokenConstant, "TRX") >>,
       chains |-> << EthChain, OsmosisChain, TronChain >>,
       isInMaintenanceMode |-> FALSE,
       maintenanceMessage |-> Undefined,
       axlScanUrl |-> "https://testnet.axelarscan.io"],
      [tokens |-> << Tok("1", nativeTokenConstant, "ETH"),
                     Tok("osmosis-1", "uosmo", "OSMO") >>,
       chains |-> << EthChain, OsmosisChain >>,
       isInMaintenanceMode |-> TRUE,
       maintenanceMessage |-> "maintenance",
       axlScanUrl |-> "https://axelarscan.io"] }

\* the configurations a caller passes
Configs ==
    { [integratorId |-> "int-a", baseUrl |-> "https://api.example/"],
      [baseUrl |-> Undefined] }

ChainIds == {"1", "osmosis-1", "tron", "999"}

TokenAddresses == {nativeTokenConstant, "0xusdc", "uosmo"}

RouteRequests ==
    [fromChain : ChainIds, toChain : {"1"},
     fromToken : TokenAddresses, toToken : {nativeTokenConstant}]

SquidDatas ==
    { [target |-> "0xsquidRouter", data |-> "0xcalldata", value |-> "10",
       gasLimit |-> "21000", gasPrice |-> "5"] }

\* a route of a RouteResponse, with and without its transactionRequest
Routes ==
    [params : RouteRequests,
     transactionRequest : SquidDatas \cup {UndefinedObject}]

Wallet == [kind |-> "signer", address |-> "0xalice"]

\* the data of executeRoute and approveRoute, with and without a signer
ExecuteRoutes == [route : Routes, signer : {UndefinedObject, Wallet}]

Senders == {"0xalice"}

\* how a handler method ends: it returns or it throws
HandlerOutcomes == {"returned", "threw"}

HandlerError == Error(<<"handler">>)

\* response bodies and headers of v2/route and v1/status
Bodies ==
    { EmptyObject,
      [route |-> "route-1"],
      [route |-> "route-1", requestId |-> "stale"],
      [error |-> "slippage too high"],
      [error |-> "no route found"] }

HeaderMaps ==
    { EmptyObject,
      ("x-request-id" :> "req-1"),
      ("x-request-id" :> "req-1") @@ ("x-integrator-id" :> "int-a") }

----------------------------------------------------------------------------
(* The record of a completed call *)

NoCall ==
    [op |-> "none", initAtCall |-> FALSE, error |-> NoError, invoked |-> <<>>,
     route |-> UndefinedObject, signer |-> UndefinedObject,
     resolved |-> FALSE, params |-> UndefinedObject,
     status |-> 0, data |-> UndefinedObject, headers |-> UndefinedObject,
     result |-> UndefinedObject]

\* the call threw `error` before it resolved parameters or reached a handler
Thrown(op, route, signer, error) ==
    [NoCall EXCEPT !.op = op, !.initAtCall = initialized, !.error = error,
                   !.route = route, !.signer = signer]

\* the call threw `error` after it resolved parameters, reaching no handler
ThrownResolved(op, route, signer, params, error) ==
    [NoCall EXCEPT !.op = op, !.initAtCall = initialized, !.error = error,
                   !.route = route, !.signer = signer,
                   !.resolved = TRUE, !.params = params]

\* the call handed over to `method` of `handler`, which ended as `outcome`
Invoked(op, route, signer, resolved, params, handler, method, outcome) ==
    [NoCall EXCEPT !.op = op, !.initAtCall = initialized,
                   !.error = IF outcome = "threw" THEN HandlerError ELSE NoError,
                   !.invoked = << <<handler, method>> >>,
                   !.route = route, !.signer = signer,
                   !.resolved = resolved, !.params = params,
                   !.result = IF outcome = "threw" THEN UndefinedObject
                              ELSE [from |-> handler, method |-> method]]

----------------------------------------------------------------------------
(* TokensChains: the metadata store *)

Try(value) == [ok |-> TRUE, value |-> value]

Fail(error) == [ok |-> FALSE, error |-> error]

\* the first element of sequence s that satisfies Test
First(s, Test(_)) ==
    LET hits == {i \in 1..Len(s) : Test(s[i])}
    IN  s[CHOOSE i \in hits : \A j \in hits : i <= j]

getChainData(chainId) ==
    LET Match(c) == c.chainId = chainId
    IN  IF \E i \in 1..Len(chains) : Match(chains[i])
        THEN Try(First(chains, Match))
        ELSE Fail(Error(<<"Could not find chain with ", chainId>>))

getTokenData(address, chainId) ==
    LET Match(t) == t.address = address /\ t.chainId = chainId
    IN  IF \E i \in 1..Len(tokens) : Match(tokens[i])
        THEN Try(First(tokens, Match))
        ELSE Fail(Error(<<"Could not find token with address ", address,
                          " on chain ", chainId>>))

----------------------------------------------------------------------------
(* EthersAdapter *)

rpcProvider(rpc) == [kind |-> "provider", rpc |-> rpc]

contract(address, abi, signerOrProvider) ==
    [address |-> address, abi |-> abi, runner |-> signerOrProvider]

----------------------------------------------------------------------------
(* Squid: internal methods *)

validateInit_AlwaysPasses == NoError

validateInit == IF ~initialized THEN NotInitializedError ELSE NoError

validateTransactionRequest_AlwaysPasses(route) == NoError

validateTransactionRequest(route) ==
    IF route.transactionRequest = UndefinedObject
    THEN MissingTransactionRequestError
    ELSE NoError

\* the bug of binding a contract whatever the token
populateRouteParams_AlwaysBinds(params, signer) ==
    LET _fromChain == getChainData(params.fromChain)
        _toChain == getChainData(params.toChain)
        _fromToken == getTokenData(params.fromToken, params.fromChain)
        _toToken == getTokenData(params.toToken, params.toChain)
    IN  IF ~_fromChain.ok THEN _fromChain
        ELSE IF ~_toChain.ok THEN _toChain
        ELSE IF ~_fromToken.ok THEN _fromToken
        ELSE IF ~_toToken.ok THEN _toToken
        ELSE
          LET fromProvider == rpcProvider(_fromChain.value.rpc)
              fromIsNative == _fromToken.value.address = nativeTokenConstant
          IN  Try(Spread(params,
                    [fromChain |-> _fromChain.value,
                     toChain |-> _toChain.value,
                     fromToken |-> _fromToken.value,
                     toToken |-> _toToken.value,
                     fromTokenContract |->
                         contract(_fromToken.value.address, erc20Abi,
                                  IF signer # UndefinedObject THEN signer
                                  ELSE fromProvider),
                     fromProvider |-> fromProvider,
                     fromIsNative |-> fromIsNative]))

populateRouteParams(params, signer) ==
    LET _fromChain == getChainData(params.fromChain)
        _toChain == getChainData(params.toChain)
        _fromToken == getTokenData(params.fromToken, params.fromChain)
        _toToken == getTokenData(params.toToken, params.toChain)
    IN  IF ~_fromChain.ok THEN _fromChain
        ELSE IF ~_toChain.ok THEN _toChain
        ELSE IF ~_fromToken.ok THEN _fromToken
        ELSE IF ~_toToken.ok THEN _toToken
        ELSE
          LET fromProvider == rpcProvider(_fromChain.value.rpc)
              fromIsNative == _fromToken.value.address = nativeTokenConstant
              fromTokenContract ==
                  IF ~fromIsNative
                  THEN contract(_fromToken.value.address, erc20Abi,
                                IF signer # UndefinedObject THEN signer
                                ELSE fromProvider)
                  ELSE UndefinedObject
          IN  Try(Spread(params,
                    [fromChain |-> _fromChain.value,
                     toChain |-> _toChain.value,
                     fromToken |-> _fromToken.value,
                     toToken |-> _toToken.value,
                     fromTokenContract |-> fromTokenContract,
                     fromProvider |-> fromProvider,
                     fromIsNative |-> fromIsNative]))

----------------------------------------------------------------------------
(* Squid: the switch statements on params.fromChain.chainType.  Each gives  *)
(* the handler whose method the case returns, "none" for the default case.  *)

executeRouteSwitch_CosmosToEvm(chainType) ==
    CASE chainType = EVM -> "evm"
      [] chainType = COSMOS -> "evm"
      [] OTHER -> "none"

executeRouteSwitch(chainType) ==
    CASE chainType = EVM -> "evm"
      [] chainType = COSMOS -> "cosmos"
      [] OTHER -> "none"

isRouteApprovedSwitch(chainType) ==
    CASE chainType = EVM -> "evm"
      [] OTHER -> "none"

approveRouteSwitch(chainType) ==
    CASE chainType = EVM -> "evm"
      [] OTHER -> "none"

\* validateInit, validateTransactionRequest and populateRouteParams, as
\* executeRoute, isRouteApproved and approveRoute run them before the switch
Resolve(op, route, signer) ==
    IF validateInit # NoError
    THEN Fail(Thrown(op, route, signer, validateInit))
    ELSE IF validateTransactionRequest(route) # NoError
    THEN Fail(Thrown(op, route, signer, validateTransactionRequest(route)))
    ELSE
      LET params == populateRouteParams(route.params, signer)
      IN  IF ~params.ok
          THEN Fail(Thrown(op, route, signer, params.error))
          ELSE Try(params.value)

\* the switch once it has chosen `handler` for the resolved params
Switched(op, route, signer, params, handler, outcome) ==
    IF handler = "none"
    THEN ThrownResolved(op, route, signer, params,
                        UnsupportedChainFamilyError(params.fromChain.chainType))
    ELSE Invoked(op, route, signer, TRUE, params, handler, op, outcome)

executeRoute(data, outcome) ==
    LET params == Resolve("executeRoute", data.route, data.signer)
    IN  IF ~params.ok THEN params.error
        ELSE Switched("executeRoute", data.route, data.signer, params.value,
                      executeRouteSwitch(params.value.fromChain.chainType),
                      outcome)

isRouteApproved(route, sender, outcome) ==
    LET params == Resolve("isRouteApproved", route, UndefinedObject)
    IN  IF ~params.ok THEN params.error
        ELSE Switched("isRouteApproved", route, UndefinedObject, params.value,
                      isRouteApprovedSwitch(params.value.fromChain.chainType),
                      outcome)

approveRoute(data, outcome) ==
    LET params == Resolve("approveRoute", data.route, data.signer)
    IN  IF ~params.ok THEN params.error
        ELSE Switched("approveRoute", data.route, data.signer, params.value,
                      approveRouteSwitch(params.value.fromChain.chainType),
                      outcome)

getRawTxHex(data, outcome) ==
    IF validateInit # NoError
    THEN Thrown("getRawTxHex", data.route, UndefinedObject, validateInit)
    ELSE IF validateTransactionRequest(data.route) # NoError
    THEN Thrown("getRawTxHex", data.route, UndefinedObject,
                validateTransactionRequest(data.route))
    ELSE Invoked("getRawTxHex", data.route, UndefinedObject, FALSE,
                 UndefinedObject, "evm", "getRawTxHex", outcome)

----------------------------------------------------------------------------
(* Squid: the operations that talk to the routing service *)

\* the message of new Error(value)
ErrorMessage(value) == IF value = Undefined THEN "" ELSE value

\* { ...data, requestId, integratorId } with the two response headers
WithIds(data, headers) ==
    Spread(data, [requestId |-> Get(headers, "x-request-id"),
                  integratorId |-> Get(headers, "x-integrator-id")])

\* the bug of treating every status below 500 as a success
getRouteResult_ClientErrorsPass(data, headers, status) ==
    IF status >= 500
    THEN [NoCall EXCEPT !.op = "getRoute", !.initAtCall = initialized,
                        !.status = status, !.data = data, !.headers = headers,
                        !.error = Error(<<ErrorMessage(Get(data, "error"))>>)]
    ELSE [NoCall EXCEPT !.op = "getRoute", !.initAtCall = initialized,
                        !.status = status, !.data = data, !.headers = headers,
                        !.result = WithIds(data, headers)]

\* getRoute from the response of v2/route on
getRouteResult(data, headers, status) ==
    IF status # 200
    THEN [NoCall EXCEPT !.op = "getRoute", !.initAtCall = initialized,
                        !.status = status, !.data = data, !.headers = headers,
                        !.error = Error(<<ErrorMessage(Get(data, "error"))>>)]
    ELSE [NoCall EXCEPT !.op = "getRoute", !.initAtCall = initialized,
                        !.status = status, !.data = data, !.headers = headers,
                        !.result = WithIds(data, headers)]

getStatus(data, headers) ==
    [NoCall EXCEPT !.op = "getStatus", !.initAtCall = initialized,
                   !.data = data, !.headers = headers,
                   !.result = WithIds(data, headers)]

PriceReplies == {EmptyObject, [usdPrice |-> 2]}

PricedTokens ==
    { [chainId |-> "1", address |-> nativeTokenConstant, usdPrice |-> 3],
      [chainId |-> "1", address |-> "0xusdc", usdPrice |-> 1] }

getTokenPrice(reply) ==
    [NoCall EXCEPT !.op = "getTokenPrice", !.initAtCall = initialized,
                   !.data = reply,
                   !.result = [usdPrice |-> reply.usdPrice]]

\* the amount as the fraction num / den, the slippage in thousandths
getFromAmount(fromToken, toToken, toAmount, slippage, fromReply, toReply) ==
    LET fromTokenPrice == IF "usdPrice" \in DOMAIN fromReply
                          THEN fromReply.usdPrice ELSE fromToken.usdPrice
        toTokenPrice == IF "usdPrice" \in DOMAIN toReply
                        THEN toReply.usdPrice ELSE toToken.usdPrice
    IN  [NoCall EXCEPT !.op = "getFromAmount", !.initAtCall = initialized,
                       !.result = [num |-> toTokenPrice * toAmount
                                             * (1000 + slippage),
                                   den |-> fromTokenPrice * 1000]]

----------------------------------------------------------------------------
(* Squid: balances *)

getEvmBalances(userAddress, chainIds, outcome) ==
    [NoCall EXCEPT !.op = "getEvmBalances", !.initAtCall = initialized,
                   !.data = [userAddress |-> userAddress, chains |-> chainIds],
                   !.invoked = << <<"evm", "getBalances">> >>,
                   !.error = IF outcome = "threw" THEN HandlerError
                             ELSE NoError,
                   !.result = IF outcome = "threw" THEN UndefinedObject
                              ELSE [from |-> "evm", method |-> "getBalances"]]

getCosmosBalances(addresses, chainIds, outcome) ==
    [NoCall EXCEPT !.op = "getCosmosBalances", !.initAtCall = initialized,
                   !.data = [addresses |-> addresses, chainIds |-> chainIds],
                   !.invoked = << <<"cosmos", "getBalances">> >>,
                   !.error = IF outcome = "threw" THEN HandlerError
                             ELSE NoError,
                   !.result = IF outcome = "threw" THEN UndefinedObject
                              ELSE [from |-> "cosmos",
                                    method |-> "getBalances"]]

ChainIdsOf(s) == [i \in 1..Len(s) |-> s[i].chainId]

getAllBalances(chainIds, cosmosAddresses, evmAddress, evmOut, cosmosOut) ==
    LET Asked(c) == c.chainId \in chainIds
        IsCosmos(c) == Asked(c) /\ c.chainType = COSMOS
        IsOther(c) == Asked(c) /\ c.chainType # COSMOS
        evmChainIds == ChainIdsOf(SelectSeq(chains, IsOther))
        cosmosChainIds == ChainIdsOf(SelectSeq(chains, IsCosmos))
        evmCall == IF Truthy(evmAddress)
                   THEN << <<"evm", "getBalances">> >> ELSE <<>>
        evmThrew == Truthy(evmAddress) /\ evmOut = "threw"
        cosmosCall == IF cosmosAddresses # UndefinedObject /\ ~evmThrew
                      THEN << <<"cosmos", "getBalances">> >> ELSE <<>>
        cosmosThrew == cosmosCall # <<>> /\ cosmosOut = "threw"
    IN  [NoCall EXCEPT !.op = "getAllBalances", !.initAtCall = initialized,
                       !.data = [evmChainIds |-> evmChainIds,
                                 cosmosChainIds |-> cosmosChainIds],
                       !.invoked = evmCall \o cosmosCall,
                       !.error = IF evmThrew \/ cosmosThrew THEN HandlerError
                                 ELSE NoError,
                       !.result = IF evmThrew \/ cosmosThrew
                                  THEN UndefinedObject
                                  ELSE [evmBalances |-> evmCall,
                                        cosmosBalances |-> cosmosCall]]

----------------------------------------------------------------------------
(* Squid: construction, configuration and initialization *)

HttpAdapter(cfg, integratorId) ==
    [baseUrl |-> Or(Get(cfg, "baseUrl"), baseUrl),
     headers |-> [integrator |-> integratorId],
     timeout |-> Get(cfg, "timeout")]

ConfigOf(cfg) == Spread([baseUrl |-> Or(Get(cfg, "baseUrl"), baseUrl)], cfg)

\* the state after new Squid(cfg)
Constructed(cfg) ==
    /\ Truthy(Get(cfg, "integratorId"))
    /\ httpInstance = HttpAdapter(cfg, cfg.integratorId)
    /\ config = ConfigOf(cfg)
    /\ initialized = FALSE
    /\ isInMaintenanceMode = FALSE
    /\ maintenanceMessage = Undefined
    /\ axelarscanURL = Undefined
    /\ tokens = <<>>
    /\ chains = <<>>
    /\ initPending = 0
    /\ routePending = 0
    /\ last = NoCall

setConfig(cfg) ==
    /\ httpInstance' = HttpAdapter(cfg, Or(Get(cfg, "integratorId"), "squid-sdk"))
    /\ config' = ConfigOf(cfg)
    /\ last' = [NoCall EXCEPT !.op = "setConfig", !.initAtCall = initialized]
    /\ UNCHANGED <<initialized, metaVars, initPending, routePending>>

\* the bug of latching the flag before the status is looked at
initResponse_FlagBeforeStatus(status, data) ==
    /\ initialized' = TRUE
    /\ IF status # 200
       THEN /\ last' = [NoCall EXCEPT !.op = "init",
                                      !.initAtCall = initialized,
                                      !.status = status, !.data = data,
                                      !.error = InitializationFailedError]
            /\ UNCHANGED metaVars
       ELSE /\ tokens' = data.tokens
            /\ chains' = data.chains
            /\ isInMaintenanceMode' = data.isInMaintenanceMode
            /\ maintenanceMessage' = data.maintenanceMessage
            /\ axelarscanURL' = data.axlScanUrl
            /\ last' = [NoCall EXCEPT !.op = "init",
                                      !.initAtCall = initialized,
                                      !.status = status, !.data = data]

\* init from the response of v2/sdk-info on
initResponse(status, data) ==
    IF status # 200
    THEN /\ last' = [NoCall EXCEPT !.op = "init", !.initAtCall = initialized,
                                   !.status = status, !.data = data,
                                   !.error = InitializationFailedError]
         /\ UNCHANGED <<initialized, metaVars>>
    ELSE /\ tokens' = data.tokens
         /\ chains' = data.chains
         /\ isInMaintenanceMode' = data.isInMaintenanceMode
         /\ maintenanceMessage' = data.maintenanceMessage
         /\ axelarscanURL' = data.axlScanUrl
         /\ initialized' = TRUE
         /\ last' = [NoCall EXCEPT !.op = "init", !.initAtCall = initialized,
                                   !.status = status, !.data = data]

----------------------------------------------------------------------------
(* The client as a state machine: one action per call or response *)

\* what a call that only reads the client leaves alone
callVars == <<initialized, metaVars, config, httpInstance, initPending,
              routePending, arg, ret>>

SetConfig ==
    /\ \E cfg \in Configs : setConfig(cfg)
    /\ UNCHANGED <<arg, ret>>

InitCall ==
    /\ initPending < MaxInFlight
    /\ initPending' = initPending + 1
    /\ UNCHANGED <<initialized, metaVars, config, httpInstance, routePending,
                   last, arg, ret>>

InitResponse ==
    /\ initPending > 0
    /\ initPending' = initPending - 1
    /\ \E status \in Statuses, data \in SdkInfos : initResponse(status, data)
    /\ UNCHANGED <<config, httpInstance, routePending, arg, ret>>

GetRouteCall ==
    /\ \E params \in RouteRequests :
         IF validateInit # NoError
         THEN /\ last' = Thrown("getRoute", UndefinedObject, UndefinedObject,
                                validateInit)
              /\ UNCHANGED routePending
         ELSE /\ routePending < MaxInFlight
              /\ routePending' = routePending + 1
              /\ UNCHANGED last
    /\ UNCHANGED <<initialized, metaVars, config, httpInstance, initPending,
                   arg, ret>>

GetRouteResponse ==
    /\ routePending > 0
    /\ routePending' = routePending - 1
    /\ \E status \in Statuses, data \in Bodies, headers \in HeaderMaps :
         last' = getRouteResult(data, headers, status)
    /\ UNCHANGED <<initialized, metaVars, config, httpInstance, initPending,
                   arg, ret>>

GetStatus ==
    /\ \E data \in Bodies, headers \in HeaderMaps :
         last' = getStatus(data, headers)
    /\ UNCHANGED callVars

ExecuteRoute ==
    /\ \E data \in ExecuteRoutes, outcome \in HandlerOutcomes :
         last' = executeRoute(data, outcome)
    /\ UNCHANGED callVars

IsRouteApproved ==
    /\ \E route \in Routes, sender \in Senders, outcome \in HandlerOutcomes :
         last' = isRouteApproved(route, sender, outcome)
    /\ UNCHANGED callVars

ApproveRoute ==
    /\ \E data \in ExecuteRoutes, outcome \in HandlerOutcomes :
         last' = approveRoute(data, outcome)
    /\ UNCHANGED callVars

GetRawTxHex ==
    /\ \E route \in Routes, outcome \in HandlerOutcomes :
         last' = getRawTxHex([route |-> route, nonce |-> 0], outcome)
    /\ UNCHANGED callVars

GetTokenPrice ==
    /\ \E reply \in PriceReplies \ {EmptyObject} :
         last' = getTokenPrice(reply)
    /\ UNCHANGED callVars

GetFromAmount ==
    /\ \E fromToken \in PricedTokens, toToken \in PricedTokens,
       fromReply \in PriceReplies, toReply \in PriceReplies :
         last' = getFromAmount(fromToken, toToken, 10, 15, fromReply, toReply)
    /\ UNCHANGED callVars

GetEvmBalances ==
    /\ \E chainIds \in {<<>>, <<"1">>}, outcome \in HandlerOutcomes :
         last' = getEvmBalances("0xalice", chainIds, outcome)
    /\ UNCHANGED callVars

GetCosmosBalances ==
    /\ \E chainIds \in {<<>>, <<"osmosis-1">>}, outcome \in HandlerOutcomes :
         last' = getCosmosBalances(<<"osmo1alice">>, chainIds, outcome)
    /\ UNCHANGED callVars

GetAllBalances ==
    /\ \E chainIds \in {{}, {"1", "osmosis-1", "tron", "999"}},
       cosmosAddresses \in {UndefinedObject, [list |-> <<"osmo1alice">>]},
       evmAddress \in {Undefined, "0xalice"},
       evmOutcome \in HandlerOutcomes, cosmosOutcome \in HandlerOutcomes :
         last' = getAllBalances(chainIds, cosmosAddresses, evmAddress,
                               evmOutcome, cosmosOutcome)
    /\ UNCHANGED callVars

Init ==
    /\ \E cfg \in Configs : Constructed(cfg)
    /\ arg = UndefinedObject
    /\ ret = UndefinedObject

Next ==
    \/ SetConfig
    \/ InitCall
    \/ InitResponse
    \/ GetStatus
    \/ GetRouteCall
    \/ GetRouteResponse
    \/ ExecuteRoute
    \/ IsRouteApproved
    \/ ApproveRoute
    \/ GetRawTxHex
    \/ GetTokenPrice
    \/ GetFromAmount
    \/ GetEvmBalances
    \/ GetCosmosBalances
    \/ GetAllBalances

Spec == Init /\ [][Next]_vars

----------------------------------------------------------------------------
(* Claims about the client *)

AllOperations ==
    {"getRoute", "executeRoute", "approveRoute", "isRouteApproved",
     "getRawTxHex", "getStatus", "getTokenPrice", "getFromAmount",
     "getEvmBalances", "getCosmosBalances", "getAllBalances"}

GuardedOperations ==
    {"getRoute", "executeRoute", "approveRoute", "isRouteApproved",
     "getRawTxHex"}

RouteOperations ==
    {"executeRoute", "approveRoute", "isRouteApproved", "getRawTxHex"}

\* C1 as stated: every operation other than init, called while initialized
\* is false, fails with the not-initialized error.
C1_EveryOperationRequiresInit ==
    (last.op \in AllOperations /\ ~last.initAtCall)
        => last.error = NotInitializedError

\* C1 as amended: getRoute, executeRoute, approveRoute, isRouteApproved and
\* getRawTxHex, called while initialized is false, fail with the
\* not-initialized error before they resolve parameters or reach a handler;
\* the other six operations never fail with that error.
C1_GuardedOperationsRequireInit ==
    /\ (last.op \in GuardedOperations /\ ~last.initAtCall)
         => /\ last.error = NotInitializedError
            /\ ~last.resolved
            /\ last.invoked = <<>>
            /\ last.result = UndefinedObject
    /\ last.op \in AllOperations \ GuardedOperations
         => last.error # NotInitializedError

C1_Witness ==
    /\ ~initialized
    /\ initPending > 0
    /\ last.op = "getRawTxHex"
    /\ last.route.transactionRequest # UndefinedObject
    /\ last.error = NotInitializedError

\* C2: on an initialized client a route without a transactionRequest makes
\* executeRoute, approveRoute, isRouteApproved and getRawTxHex fail with the
\* missing-transaction-request error, with no parameters resolved and no
\* handler method invoked.
C2_MissingTransactionRequestFailsFirst ==
    (/\ last.op \in RouteOperations
     /\ last.initAtCall
     /\ last.route.transactionRequest = UndefinedObject)
        => /\ last.error = MissingTransactionRequestError
           /\ ~last.resolved
           /\ last.params = UndefinedObject
           /\ last.invoked = <<>>

C2_Witness ==
    /\ last.op = "approveRoute"
    /\ last.initAtCall
    /\ last.route.transactionRequest = UndefinedObject
    /\ last.route.params.fromChain = "999"
    /\ last.error = MissingTransactionRequestError

DispatchingOperations == {"executeRoute", "approveRoute", "isRouteApproved"}

\* C3 as stated: in executeRoute, approveRoute and isRouteApproved the EVM
\* family selects the EVM handler, the Cosmos family the Cosmos handler, and
\* any other chain type fails with the unsupported-chain-family error and
\* no handler invoked.
C3_SameDispatchInEveryOperation ==
    (last.op \in DispatchingOperations /\ last.resolved) =>
        LET chainType == last.params.fromChain.chainType
        IN  /\ chainType = EVM => last.invoked = << <<"evm", last.op>> >>
            /\ chainType = COSMOS
                 => last.invoked = << <<"cosmos", last.op>> >>
            /\ chainType \notin {EVM, COSMOS}
                 => /\ last.error = UnsupportedChainFamilyError(chainType)
                    /\ last.invoked = <<>>

\* C3 as amended: the handler is a function of the resolved chain type and
\* of the operation.  executeRoute: EVM selects the EVM handler, Cosmos the
\* Cosmos handler, any other type fails with the unsupported-chain-family
\* error.  approveRoute and isRouteApproved: EVM selects the EVM handler and
\* every other type, Cosmos included, fails with that error.  A failing
\* dispatch invokes no handler.
C3_DispatchByChainType ==
    (last.op \in DispatchingOperations /\ last.resolved) =>
        LET chainType == last.params.fromChain.chainType
            supported == IF last.op = "executeRoute" THEN {EVM, COSMOS}
                         ELSE {EVM}
        IN  /\ chainType = EVM => last.invoked = << <<"evm", last.op>> >>
            /\ (chainType = COSMOS /\ last.op = "executeRoute")
                 => last.invoked = << <<"cosmos", last.op>> >>
            /\ chainType \notin supported
                 => /\ last.error = UnsupportedChainFamilyError(chainType)
                    /\ last.invoked = <<>>

C3_Witness ==
    /\ last.op = "executeRoute"
    /\ last.resolved
    /\ last.params.fromChain.chainType = COSMOS
    /\ last.invoked = << <<"cosmos", "executeRoute">> >>

\* the chain id belongs to no EVM chain of the metadata
NotAnEvmChain(chainId) ==
    \A info \in SdkInfos : \A i \in 1..Len(info.chains) :
        info.chains[i].chainId = chainId => info.chains[i].chainType # EVM

\* C4: on an initialized client, for a route that carries a transaction
\* request and whose source chain is not an EVM chain, getRawTxHex fails
\* and the EVM handler's getRawTxHex is not invoked.
C4_RawTxHexOnlyForEvm ==
    (/\ last.op = "getRawTxHex"
     /\ last.initAtCall
     /\ last.route.transactionRequest # UndefinedObject
     /\ NotAnEvmChain(last.route.params.fromChain))
        => /\ last.error # NoError
           /\ last.invoked = <<>>

\* C7: whenever populateRouteParams resolves a request, fromIsNative holds
\* exactly when the resolved source token's address is the native sentinel;
\* a native source has no fromTokenContract; any other source has one bound
\* to the resolved token's address, run by the signer if one was given and
\* by the source chain's read provider otherwise.
C7_ContractOnlyForNonNativeSource ==
    last.resolved =>
        LET p == last.params
        IN  /\ p.fromToken.address = last.route.params.fromToken
            /\ p.fromToken.chainId = last.route.params.fromChain
            /\ p.fromIsNative <=> (p.fromToken.address = nativeTokenConstant)
            /\ p.fromIsNative => p.fromTokenContract = UndefinedObject
            /\ ~p.fromIsNative =>
                 /\ p.fromTokenContract # UndefinedObject
                 /\ p.fromTokenContract.address = p.fromToken.address
                 /\ p.fromTokenContract.runner =
                      IF last.op \in {"executeRoute", "approveRoute"}
                         /\ last.signer # UndefinedObject
                      THEN last.signer
                      ELSE [kind |-> "provider", rpc |-> p.fromChain.rpc]

C7_Witness ==
    /\ last.resolved
    /\ ~last.params.fromIsNative
    /\ last.signer = Wallet
    /\ last.params.fromTokenContract.runner = Wallet
    /\ last.params.fromTokenContract.address = "0xusdc"

\* C8: when v2/route answers with a status other than 200, getRoute fails
\* with an error whose message is the error string of the body and returns
\* no route; with status 200 it returns the body together with the
\* x-request-id and x-integrator-id response headers.
C8_GetRouteSurfacesServiceError ==
    (last.op = "getRoute" /\ last.status \in Statuses) =>
        /\ (last.status # 200 /\ "error" \in DOMAIN last.data)
             => /\ last.error.name = "Error"
                /\ last.error.message = <<last.data.error>>
        /\ last.status # 200
             => /\ last.error # NoError
                /\ last.result = UndefinedObject
        /\ last.status = 200
             => /\ last.error = NoError
                /\ \A k \in DOMAIN last.data \ {"requestId", "integratorId"} :
                     last.result[k] = last.data[k]
                /\ last.result.requestId =
                     IF "x-request-id" \in DOMAIN last.headers
                     THEN last.headers["x-request-id"] ELSE Undefined
                /\ last.result.integratorId =
                     IF "x-integrator-id" \in DOMAIN last.headers
                     THEN last.headers["x-integrator-id"] ELSE Undefined

C8_Witness ==
    /\ last.op = "getRoute"
    /\ last.status = 400
    /\ last.data = [error |-> "slippage too high"]
    /\ last.error.message = <<"slippage too high">>

\* the metadata is that of one sdk-info body
MetadataLoaded ==
    \E d \in SdkInfos :
        /\ tokens = d.tokens
        /\ chains = d.chains
        /\ isInMaintenanceMode = d.isInMaintenanceMode
        /\ maintenanceMessage = d.maintenanceMessage
        /\ axelarscanURL = d.axlScanUrl

\* one step of the client, as the latch allows it
LatchStep ==
    /\ initialized => initialized'
    /\ initPending' >= initPending => UNCHANGED <<initialized, metaVars>>
    /\ initPending' < initPending =>
         /\ last'.op = "init"
         /\ IF last'.status = 200
            THEN /\ initialized'
                 /\ last'.error = NoError
                 /\ tokens' = last'.data.tokens
                 /\ chains' = last'.data.chains
                 /\ isInMaintenanceMode' = last'.data.isInMaintenanceMode
                 /\ maintenanceMessage' = last'.data.maintenanceMessage
                 /\ axelarscanURL' = last'.data.axlScanUrl
            ELSE /\ last'.error = InitializationFailedError
                 /\ UNCHANGED <<initialized, metaVars>>

\* C10: initialized is false from construction until an init call receives
\* status 200; it becomes true in the step that stores the metadata of that
\* response, so initialized never holds without loaded metadata; an init
\* call that receives another status fails with 'SDK initialization failed'
\* and changes neither the metadata nor the flag; once true the flag stays
\* true through failing init calls, setConfig and every other operation.
C10_InitializedIsALatch ==
    /\ ~initialized
    /\ [](initialized => MetadataLoaded)
    /\ [](~initialized => (tokens = <<>> /\ chains = <<>>))
    /\ [][LatchStep]_vars

C10_Witness ==
    /\ initialized
    /\ MetadataLoaded
    /\ initPending > 0
    /\ last.op = "init"
    /\ last.status = 500
    /\ last.error = InitializationFailedError
    /\ last.initAtCall

----------------------------------------------------------------------------
(* Utils.getGasData *)

GasKeys == {"gasLimit", "gasPrice", "maxPriorityFeePerGas", "maxFeePerGas"}

\* the transaction requests: legacy, fee-market, and with an empty or
\* missing priority fee
GasRequests ==
    [target : {"0xsquidRouter"},
     gasLimit : {"21000"},
     gasPrice : {Undefined, "5"},
     maxPriorityFeePerGas : {Undefined, "", "2"},
     maxFeePerGas : {Undefined, "9"}]

\* no overrides, or an object that overrides some of the gas keys
GasOverrides ==
    {UndefinedObject}
    \cup { [k \in K |-> "77"] : K \in SUBSET GasKeys }
    \cup { [gasLimit |-> Undefined] }

\* the bug of spreading the overrides first
getGasData_DerivedWins(transactionRequest, overrides) ==
    LET gasLimit == Get(transactionRequest, "gasLimit")
        gasPrice == Get(transactionRequest, "gasPrice")
        maxPriorityFeePerGas == Get(transactionRequest, "maxPriorityFeePerGas")
        maxFeePerGas == Get(transactionRequest, "maxFeePerGas")
        gasParams ==
            IF Truthy(maxPriorityFeePerGas)
            THEN [gasLimit |-> gasLimit,
                  maxPriorityFeePerGas |-> maxPriorityFeePerGas,
                  maxFeePerGas |-> maxFeePerGas]
            ELSE [gasLimit |-> gasLimit, gasPrice |-> gasPrice]
    IN  IF overrides # UndefinedObject
        THEN Spread(overrides, gasParams)
        ELSE gasParams

getGasData(transactionRequest, overrides) ==
    LET gasLimit == Get(transactionRequest, "gasLimit")
        gasPrice == Get(transactionRequest, "gasPrice")
        maxPriorityFeePerGas == Get(transactionRequest, "maxPriorityFeePerGas")
        maxFeePerGas == Get(transactionRequest, "maxFeePerGas")
        gasParams ==
            IF Truthy(maxPriorityFeePerGas)
            THEN [gasLimit |-> gasLimit,
                  maxPriorityFeePerGas |-> maxPriorityFeePerGas,
                  maxFeePerGas |-> maxFeePerGas]
            ELSE [gasLimit |-> gasLimit, gasPrice |-> gasPrice]
    IN  IF overrides # UndefinedObject
        THEN Spread(gasParams, overrides)
        ELSE gasParams

GetGasData ==
    /\ ret = UndefinedObject
    /\ ret' = getGasData(arg.transactionRequest, arg.overrides)
    /\ UNCHANGED <<sdkVars, arg>>

InitGas ==
    /\ \E cfg \in Configs : Constructed(cfg)
    /\ arg \in [transactionRequest : GasRequests, overrides : GasOverrides]
    /\ ret = UndefinedObject

NextGas == GetGasData

SpecGas == InitGas /\ [][NextGas]_vars

\* the keys getGasData derives from the request alone
DerivedKeys(transactionRequest) ==
    IF Truthy(transactionRequest.maxPriorityFeePerGas)
    THEN {"gasLimit", "maxPriorityFeePerGas", "maxFeePerGas"}
    ELSE {"gasLimit", "gasPrice"}

\* each overridden key has the override's value, every other key the
\* request's
OverrideWins ==
    \A k \in DOMAIN ret :
        ret[k] = IF arg.overrides # UndefinedObject
                    /\ k \in DOMAIN arg.overrides
                 THEN arg.overrides[k]
                 ELSE arg.transactionRequest[k]

\* C5 as stated: for every request and every overrides value the output has
\* exactly the keys {gasLimit, maxPriorityFeePerGas, maxFeePerGas} when
\* maxPriorityFeePerGas is set and exactly {gasLimit, gasPrice} when it is
\* not, and an overridden key takes the override's value while the others
\* keep theirs.
C5_ExactlyTheDerivedKeys ==
    ret # UndefinedObject =>
        /\ DOMAIN ret = DerivedKeys(arg.transactionRequest)
        /\ OverrideWins

\* C5 as amended: the output has exactly the derived keys when no overrides
\* are supplied, and the derived keys together with the keys of the
\* overrides when they are; an overridden key takes the override's value
\* and every other derived key keeps its derived value.
C5_DerivedKeysThenOverrides ==
    ret # UndefinedObject =>
        /\ DOMAIN ret =
             DerivedKeys(arg.transactionRequest)
             \cup (IF arg.overrides # UndefinedObject
                   THEN DOMAIN arg.overrides ELSE {})
        /\ OverrideWins

C5_Witness ==
    /\ ret # UndefinedObject
    /\ arg.transactionRequest.maxPriorityFeePerGas = "2"
    /\ arg.transactionRequest.maxFeePerGas = "9"
    /\ arg.overrides = [maxFeePerGas |-> "77"]
    /\ ret = [gasLimit |-> "21000", maxPriorityFeePerGas |-> "2",
              maxFeePerGas |-> "77"]

----------------------------------------------------------------------------
(* Utils.validateNativeBalance and Utils.validateTokenBalance *)

RECURSIVE DecimalString(_)
\* BigNumber.toString(): the decimal digits, most significant first
DecimalString(n) ==
    IF n < 10 THEN <<n>> ELSE Append(DecimalString(n \div 10), n % 10)

RECURSIVE BigInt(_)
\* BigInt(string) of a string of decimal digits
BigInt(digits) ==
    IF digits = <<>> THEN 0
    ELSE BigInt(SubSeq(digits, 1, Len(digits) - 1)) * 10 + digits[Len(digits)]

InsufficientBalanceError(sender, fromChain) ==
    Error(<<"Insufficient funds for account: ", sender, " on chain ",
            fromChain.chainId>>)

ThrewBalance(fn, error) ==
    [fn |-> fn, error |-> error, value |-> UndefinedObject]

Approved(fn, message) ==
    [fn |-> fn, error |-> NoError,
     value |-> [isApproved |-> TRUE, message |-> message]]

\* the bug of asking for more than the amount
validateNativeBalance_RejectsEqual(fromProvider, sender, amount, fromChain) ==
    LET balance == BigInt(DecimalString(fromProvider.getBalance[sender]))
    IN  IF amount >= balance
        THEN ThrewBalance("validateNativeBalance",
                          InsufficientBalanceError(sender, fromChain))
        ELSE Approved("validateNativeBalance",
                      <<"User has the expected balance ", ToString(amount),
                        " of ", fromChain.nativeCurrency.symbol>>)

validateNativeBalance(fromProvider, sender, amount, fromChain) ==
    LET balance == BigInt(DecimalString(fromProvider.getBalance[sender]))
    IN  IF amount > balance
        THEN ThrewBalance("validateNativeBalance",
                          InsufficientBalanceError(sender, fromChain))
        ELSE Approved("validateNativeBalance",
                      <<"User has the expected balance ", ToString(amount),
                        " of ", fromChain.nativeCurrency.symbol>>)

validateTokenBalance(amount, fromTokenContract, sender, fromChain) ==
    LET balance == BigInt(DecimalString(fromTokenContract.balanceOf[sender]))
    IN  IF amount > balance
        THEN ThrewBalance("validateTokenBalance",
                          InsufficientBalanceError(sender, fromChain))
        ELSE Approved("validateTokenBalance",
                      <<"User has approved Squid to use ", ToString(amount),
                        " of ", fromTokenContract.symbol>>)

Accounts == {"0xalice", "0xbob"}

\* what the chain answers for the balance of `sender`; the other account
\* holds nothing
BalancesOf(sender, balance) ==
    [a \in Accounts |-> IF a = sender THEN balance ELSE 0]

ValidateNativeBalance ==
    /\ ret = UndefinedObject
    /\ ret' = validateNativeBalance(
                  [getBalance |-> BalancesOf(arg.sender, arg.balance)],
                  arg.sender, arg.amount, arg.fromChain)
    /\ UNCHANGED <<sdkVars, arg>>

ValidateTokenBalance ==
    /\ ret = UndefinedObject
    /\ ret' = validateTokenBalance(
                  arg.amount,
                  [balanceOf |-> BalancesOf(arg.sender, arg.balance),
                   symbol |-> "USDC"],
                  arg.sender, arg.fromChain)
    /\ UNCHANGED <<sdkVars, arg>>

InitBalance ==
    /\ \E cfg \in Configs : Constructed(cfg)
    /\ arg \in [amount : 0..MaxAmount, balance : 0..MaxAmount,
                sender : Accounts, fromChain : {EthChain, OsmosisChain}]
    /\ ret = UndefinedObject

NextBalance ==
    \/ ValidateNativeBalance
    \/ ValidateTokenBalance

SpecBalance == InitBalance /\ [][NextBalance]_vars

----------------------------------------------------------------------------
(* v1/route.ts: the route normaliser *)

CallType_BRIDGE == "BRIDGE"

CallType_SWAP == "SWAP"

CallType_CUSTOM == "CUSTOM"

\* the properties of a call that hold an object
ObjectKeys == {"dex", "fromToken", "toToken"}

\* removeEmpty: the object without the properties that hold undefined
removeEmpty(obj) ==
    LET keys == {k \in DOMAIN obj : k \in ObjectKeys \/ obj[k] # Undefined}
    IN  [k \in keys |-> obj[k]]

parseBridge(data) ==
    [type |-> CallType_BRIDGE,
     fromToken |-> data.fromToken,
     toToken |-> data.toToken,
     fromAmount |-> Get(data, "fromAmount"),
     toAmount |-> Get(data, "toAmount"),
     toAmountMin |-> Get(data, "toAmountMin"),
     exchangeRate |-> Get(data, "exchangeRate"),
     priceImpact |-> Get(data, "priceImpact")]

parseSwap(data) ==
    removeEmpty(
        [type |-> Get(data, "type"),
         dex |-> [chainName |-> Get(data.dex, "chainName"),
                  dexName |-> Get(data.dex, "dexName"),
                  factory |-> Get(data.dex, "factory"),
                  isStable |-> Get(data.dex, "isStable"),
                  swapRouter |-> Get(data.dex, "swapRouter")],
         squidCallType |-> Get(data, "squidCallType"),
         path |-> Get(data, "path"),
         fromToken |-> data.fromToken,
         toToken |-> data.toToken,
         fromAmount |-> Get(data, "fromAmount"),
         toAmount |-> Get(data, "toAmount"),
         toAmountMin |-> Get(data, "toAmountMin"),
         exchangeRate |-> Get(data, "exchangeRate"),
         priceImpact |-> Get(data, "priceImpact"),
         dynamicSlippage |-> Get(data, "dynamicSlippage")])

parseCustom(data) ==
    removeEmpty(
        [type |-> Get(data, "type"),
         callType |-> Get(data, "callType"),
         target |-> Get(data, "target"),
         value |-> Get(data, "value"),
         callData |-> Get(data, "callData"),
         estimatedGas |-> Get(data, "estimatedGas"),
         payload |-> Get(data, "payload")])

\* the callback of filter
IsRouteCall(call) ==
    Get(call, "type") \in {CallType_BRIDGE, CallType_CUSTOM, CallType_SWAP}

\* the callback of map: a switch without a default case gives undefined
ParseCall(call) ==
    CASE Get(call, "type") = CallType_BRIDGE -> parseBridge(call)
      [] Get(call, "type") = CallType_SWAP -> parseSwap(call)
      [] Get(call, "type") = CallType_CUSTOM -> parseCustom(call)
      [] OTHER -> UndefinedObject

\* the bug of mapping without filtering
parseRoute_NoFilter(data) ==
    [i \in 1..Len(data) |-> ParseCall(data[i])]

parseRoute(data) ==
    LET calls == SelectSeq(data, IsRouteCall)
    IN  [i \in 1..Len(calls) |-> ParseCall(calls[i])]

Usdc == [chainId |-> "1", address |-> "0xusdc", symbol |-> "USDC"]

AxlUsdc == [chainId |-> "osmosis-1", address |-> "uausdc", symbol |-> "axlUSDC"]

\* the calls of a route as the service sends them: a bridge, two swaps, a
\* custom call, a call with a tag of another kind and a call with no tag
ServiceCalls ==
    { [type |-> "BRIDGE", fromToken |-> Usdc, toToken |-> AxlUsdc,
       fromAmount |-> "100", toAmount |-> "99", toAmountMin |-> "98",
       exchangeRate |-> "0.99", priceImpact |-> "0.1",
       callDetails |-> "gateway"],
      [type |-> "SWAP",
       dex |-> [chainName |-> "Ethereum", dexName |-> "UniswapV3",
                factory |-> "0xfactory", isStable |-> "false",
                swapRouter |-> "0xrouter"],
       squidCallType |-> "1", path |-> "0xusdc,0xweth",
       fromToken |-> Usdc, toToken |-> AxlUsdc,
       fromAmount |-> "100", toAmount |-> "97", toAmountMin |-> "96",
       exchangeRate |-> "0.97", priceImpact |-> "0.3"],
      [type |-> "SWAP",
       dex |-> [chainName |-> "Osmosis", dexName |-> "Osmosis",
                factory |-> "", isStable |-> "true", swapRouter |-> ""],
       squidCallType |-> "2", path |-> "uausdc,uosmo",
       fromToken |-> AxlUsdc, toToken |-> Usdc,
       fromAmount |-> "97", toAmount |-> "95", toAmountMin |-> "94",
       exchangeRate |-> "0.98", priceImpact |-> "0.2",
       dynamicSlippage |-> "1.5"],
      [type |-> "CUSTOM", callType |-> "0", target |-> "0xtarget",
       callData |-> "0xabcdef", estimatedGas |-> "50000"],
      [type |-> "FEE", amount |-> "1", target |-> "0xcollector"],
      [target |-> "0xuntagged", callData |-> "0x"] }

RECURSIVE SeqsUpTo(_, _)
\* the sequences over S of length at most n
SeqsUpTo(S, n) ==
    IF n = 0 THEN {<<>>}
    ELSE LET shorter == SeqsUpTo(S, n - 1)
         IN  shorter \cup {Append(q, x) : q \in shorter, x \in S}

ParseRoute ==
    /\ ret = UndefinedObject
    /\ ret' = [calls |-> parseRoute(arg.data)]
    /\ UNCHANGED <<sdkVars, arg>>

InitParse ==
    /\ \E cfg \in Configs : Constructed(cfg)
    /\ arg \in [data : SeqsUpTo(ServiceCalls, MaxCalls)]
    /\ ret = UndefinedObject

NextParse == ParseRoute

SpecParse == InitParse /\ [][NextParse]_vars

RecognizedTags == {"BRIDGE", "SWAP", "CUSTOM"}

\* the positions of the input calls that carry a recognized tag
Recognized(data) ==
    {i \in 1..Len(data) :
        "type" \in DOMAIN data[i] /\ data[i].type \in RecognizedTags}

\* the position in the input of the j-th call that carries a recognized tag
Source(data, j) ==
    CHOOSE i \in Recognized(data) :
        Cardinality({k \in Recognized(data) : k <= i}) = j

\* C9: the normalized plan holds, in their order, the input calls tagged
\* Bridge, Swap or Custom and nothing else, each parsed by the parser of its
\* own tag; a call with another tag or none is dropped without error; the
\* plan is as long as the number of recognized calls and has no undefined
\* entry.
C9_PlanIsTheRecognizedCalls ==
    ret # UndefinedObject =>
        /\ Len(ret.calls) = Cardinality(Recognized(arg.data))
        /\ \A j \in 1..Len(ret.calls) :
             LET call == arg.data[Source(arg.data, j)]
             IN  /\ ret.calls[j] # UndefinedObject
                 /\ ret.calls[j].type = call.type
                 /\ call.type = "BRIDGE" => ret.calls[j] = parseBridge(call)
                 /\ call.type = "SWAP" => ret.calls[j] = parseSwap(call)
                 /\ call.type = "CUSTOM" => ret.calls[j] = parseCustom(call)
                 /\ call.type # "CUSTOM"
                      => ret.calls[j].fromAmount = call.fromAmount

C9_Witness ==
    /\ ret # UndefinedObject
    /\ Len(arg.data) = 3
    /\ Get(arg.data[1], "type") = "FEE"
    /\ Get(arg.data[2], "type") = "SWAP"
    /\ Get(arg.data[3], "type") = "BRIDGE"
    /\ Len(ret.calls) = 2
    /\ ret.calls[1].type = "SWAP"
    /\ ret.calls[2].type = "BRIDGE"

====
